---- MODULE Spec2Model ----
(***************************************************************************)
(* HabitPulse (src/app/layout.tsx): the HomePage component's habit store,   *)
(* its persisted mirror in localStorage and the 30-second reminder poll.    *)
(*                                                                          *)
(* Time is counted in units of 15 seconds.  A JavaScript Date is the number *)
(* of units since the epoch (UTC); the local calendar is TZOffset units     *)
(* ahead of UTC, so a local day and a UTC day are different things.  A day  *)
(* key ("yyyy-MM-dd") is the number of the local day.                       *)
(***************************************************************************)
EXTENDS Integers, Sequences, FiniteSets, TLC

\* ---------------------------------------------------------------- bounds
\* Add Habit is not pressed once the list holds MaxHabits habits, and only in the
\* first CreateUntil units after the midnight of StartDay
MaxHabits == 2
CreateUntil == 2
\* the view is opened LateStart units before the local midnight of StartDay, and the
\* session ends with day LastDay
StartDay == 4
SessionDays == 1
TZOffset == 2
LateStart == 1
LastDay == StartDay + SessionDays - 1

\* ------------------------------------------------------ program constants
\* the day is scaled down to MinutesPerDay minutes of MinuteLen units
MinutesPerDay == 2
MinuteLen == 4
TickPeriod == 2
WindowLen == 4
DayLen == MinutesPerDay * MinuteLen

\* JavaScript values that are no number of units
Null == -1
Invalid == -2
Malformed == -3

\* ------------------------------------------------------------- date-fns
\* format(startOfDay(new Date(iso)), "yyyy-MM-dd"): the local day of an instant
DayKey(iso) == (iso + TZOffset) \div DayLen

\* new Date(`${key}T00:00:00`).toISOString(): local midnight of a day, as an instant
KeyToIso(key) == key * DayLen - TZOffset

\* startOfDay(date)
startOfDay(date) == KeyToIso(DayKey(date))

\* isSameDay(a, b); an Invalid Date is on no day
isSameDay(a, b) == a # Invalid /\ b # Invalid /\ DayKey(a) = DayKey(b)

\* differenceInCalendarDays(a, b)
differenceInCalendarDays(a, b) == DayKey(a) - DayKey(b)

Max(a, b) == IF a >= b THEN a ELSE b

\* --------------------------------------------------------- uniqueHistory
\* format() throws a RangeError on an Invalid Date
HistoryThrows(history) == \E i \in DOMAIN history : history[i] = Invalid

RECURSIVE FirstOccurrences(_, _)
FirstOccurrences(keys, seen) ==
    IF keys = << >> THEN << >>
    ELSE IF Head(keys) \in seen THEN FirstOccurrences(Tail(keys), seen)
    ELSE << Head(keys) >> \o FirstOccurrences(Tail(keys), seen \cup {Head(keys)})

\* uniqueHistory without the `seen` filter
uniqueHistory_NoFilter(history) ==
    [i \in DOMAIN history |-> KeyToIso(DayKey(history[i]))]

uniqueHistory(history) ==
    LET keys == [i \in DOMAIN history |-> DayKey(history[i])]
        kept == FirstOccurrences(keys, {})
    IN  [i \in DOMAIN kept |-> KeyToIso(kept[i])]

\* ------------------------------------------------------------ the state
VARIABLES
    habits,                  \* useState<Habit[]>: the in-memory list
    loaded,                  \* useState(false)
    toast,                   \* useState<Toast | null>
    notificationPermission,  \* useState("default")
    stored,                  \* localStorage[STORAGE_KEY]
    now,                     \* the wall clock, new Date()
    interval,                \* the instants at which the live setInterval timers are due
    timeout,                 \* the toasts (by id) whose 5-second dismiss timer is pending
    filter,                  \* useState<Filter>("all")
    filteredHabits,          \* the value useMemo holds, computed when filter or habits last changed
    phase,                   \* "init", "mounting" (updates queued by the mount effects), "mounted", "unmounted"
    queued,                  \* the state updates the mount effects queued for the next render
    emitted,                 \* what the last handler surfaced to the user
    fired                    \* history: per habit id, whether a tick marked it today

vars == << habits, loaded, toast, notificationPermission, stored, now, interval,
           timeout, filter, filteredHabits, phase, queued, emitted, fired >>

NoToast == [id |-> 0, message |-> "null"]
NoQueue == [habits |-> << >>, setHabits |-> FALSE, permission |-> "default"]
\* a handler that surfaces nothing; the interval callback reports as op "tick", a
\* call of Notification.requestPermission() as op "request"
Silent == [op |-> "idle", toasts |-> 0, natives |-> 0, tag |-> Null, marked |-> << >>]

\* no tick has marked any habit today
NoneFired == [id \in 1..(MaxHabits + 2) |-> FALSE]

\* createHabit(name, reminderTime) and the Habit type
Habit(id, name, reminderTime, createdAt, history, streak, longestStreak, lastCompleted, reminderLastNotified) ==
    [id |-> id, name |-> name, reminderTime |-> reminderTime, createdAt |-> createdAt,
     history |-> history, streak |-> streak, longestStreak |-> longestStreak,
     lastCompleted |-> lastCompleted, reminderLastNotified |-> reminderLastNotified]

trim(name) == IF name \in {"", " "} THEN "" ELSE IF name = " run " THEN "run" ELSE name

\* an identifier generator that repeats itself
randomUUID_Repeats(list) == 1

\* crypto.randomUUID(): an identifier no habit of the list carries
randomUUID(list) ==
    CHOOSE id \in 1..(Len(list) + 1) : \A i \in DOMAIN list : list[i].id # id

createHabit(name, reminderTime, list) ==
    Habit(randomUUID(list), trim(name), reminderTime, now, << >>, 0, 0, Null, Null)

\* hasCompletedToday(habit): habit.history.some((iso) => isToday(new Date(iso)))
hasCompletedToday(habit) == \E i \in DOMAIN habit.history : isSameDay(habit.history[i], now)

\* ------------------------------------------------------------ storage
\* JSON.stringify(habits) as the value of the slot, and JSON.parse of a slot
Stringify(list) == [kind |-> "list", habits |-> list]
ParseThrows(blob) == blob.kind = "corrupt"
Parse(blob) == blob.habits

\* the persist effect without its `if (!loaded) return`
PersistEffect_NoGuard(isLoaded, list, slot) == Stringify(list)

\* the persist effect, lines 127-130
PersistEffect(isLoaded, list, slot) == IF ~isLoaded THEN slot ELSE Stringify(list)

\* the load effect's try block, lines 111-120: the list it hands to setHabits
LoadThrows(blob) ==
    \/ ParseThrows(blob)
    \/ \E i \in DOMAIN Parse(blob) : HistoryThrows(Parse(blob)[i].history)

LoadedHabits(blob) ==
    [i \in DOMAIN Parse(blob) |->
        [Parse(blob)[i] EXCEPT !.history = uniqueHistory(Parse(blob)[i].history)]]

\* the interval effect without the cleanup of line 193
IntervalEffect_NoCleanup(isLoaded, list, live) ==
    live \cup (IF ~isLoaded \/ Len(list) = 0 THEN {} ELSE {now + TickPeriod})

\* the interval effect, lines 141-194, run when one of its dependencies changed:
\* the cleanup of the previous run clears its timer, then a new timer is started
\* unless the store is not loaded or empty
IntervalEffect(isLoaded, list, live) ==
    LET cleared == live \ live
    IN  cleared \cup (IF ~isLoaded \/ Len(list) = 0 THEN {} ELSE {now + TickPeriod})

\* the toast effect without its setTimeout
ToastEffect_NoTimeout(value, pending) == pending \ pending

\* the toast effect, lines 196-200, run when the toast changed: the cleanup of the
\* previous run clears its timeout, then a timeout is started for a toast
ToastEffect(value, pending) ==
    LET cleared == pending \ pending
    IN  cleared \cup (IF value = NoToast THEN {} ELSE {value.id})

RECURSIVE Select(_, _)
Select(list, keep) ==
    IF list = << >> THEN << >>
    ELSE IF keep[1] THEN << Head(list) >> \o Select(Tail(list), Tail(keep))
    ELSE Select(Tail(list), Tail(keep))

\* the function of useMemo, lines 203-207, evaluated at `now`; useMemo calls it
\* again only when `filter` or `habits` has changed (line 208)
FilterHabits(view, list) ==
    IF view = "all" THEN list
    ELSE IF view = "today"
    THEN Select(list, [i \in DOMAIN list |-> ~hasCompletedToday(list[i])])
    ELSE Select(list, [i \in DOMAIN list |-> list[i].reminderTime # Null])

\* ---------------------------------------------------- persisted states
\* the day on whose last instants the view is opened
Yesterday == StartDay - 1
PersistedHabits ==
    << \* completed and reminded on the day the view is opened
       Habit(1, "run", 0, KeyToIso(Yesterday), << KeyToIso(Yesterday) >>, 1, 1,
             KeyToIso(Yesterday), Yesterday),
       \* two timestamps of the same local day, not normalized, and a reminder
       \* time that does not parse
       Habit(2, "read", Malformed, KeyToIso(Yesterday),
             << KeyToIso(Yesterday) + 1, KeyToIso(Yesterday) + DayLen - 1 >>,
             1, 1, KeyToIso(Yesterday), Null),
       \* a history entry that is no timestamp
       Habit(2, "read", 1, KeyToIso(Yesterday), << KeyToIso(Yesterday), Invalid >>, 1, 1,
             KeyToIso(Yesterday), Null),
       \* completed on the day the view is opened and on the day before
       Habit(1, "run", 1, KeyToIso(Yesterday - 1),
             << KeyToIso(Yesterday - 1), KeyToIso(Yesterday) >>, 2, 2,
             KeyToIso(Yesterday), Yesterday),
       \* completed on the two days before the day the view is opened, not on that day
       Habit(2, "read", 0, KeyToIso(Yesterday - 2),
             << KeyToIso(Yesterday - 2), KeyToIso(Yesterday - 1) >>, 2, 2,
             KeyToIso(Yesterday - 1), Yesterday - 1)
    >>

PersistedStores ==
    { [kind |-> "absent", habits |-> << >>],
      [kind |-> "corrupt", habits |-> << >>],
      Stringify(<< >>),
      Stringify(<< PersistedHabits[1] >>),
      Stringify(<< PersistedHabits[1], PersistedHabits[2] >>),
      Stringify(<< PersistedHabits[1], PersistedHabits[3] >>),
      Stringify(<< PersistedHabits[4], PersistedHabits[5] >>) }

\* the state after construction; the view is opened LateStart units before the
\* midnight of StartDay
Init ==
    /\ habits = << >>
    /\ loaded = FALSE
    /\ toast = NoToast
    /\ notificationPermission = "default"
    /\ stored \in PersistedStores
    /\ now = KeyToIso(StartDay) - LateStart
    /\ interval = {}
    /\ timeout = {}
    /\ filter = "all"
    /\ filteredHabits = << >>
    /\ phase = "init"
    /\ queued = NoQueue
    /\ emitted = Silent
    /\ fired = NoneFired

\* ------------------------------------------------------------- mounting
\* The passive effects of the first commit, in source order: the load effect
\* queues setHabits and setLoaded(true), the persist effect runs with
\* loaded = false, the permission effect queues the platform's permission, the
\* interval effect returns at once.
MountEffects ==
    /\ phase = "init"
    /\ \E platform \in {"unsupported", "default", "granted", "denied"} :
         queued' = [habits |-> IF stored.kind = "absent" \/ LoadThrows(stored)
                               THEN << >> ELSE LoadedHabits(stored),
                    setHabits |-> ~(stored.kind = "absent" \/ LoadThrows(stored)),
                    permission |-> platform]
    /\ stored' = PersistEffect(loaded, habits, stored)
    /\ interval' = IntervalEffect(loaded, habits, interval)
    /\ timeout' = ToastEffect(toast, timeout)
    /\ phase' = "mounting"
    /\ emitted' = Silent
    /\ UNCHANGED << habits, loaded, toast, notificationPermission, now, filter,
                    filteredHabits, fired >>

\* The render of the queued updates and the effects whose dependencies changed.
CommitMount ==
    /\ phase = "mounting"
    /\ habits' = IF queued.setHabits THEN queued.habits ELSE habits
    /\ loaded' = TRUE
    /\ notificationPermission' = queued.permission
    /\ stored' = PersistEffect(loaded', habits', stored)
    /\ interval' = IntervalEffect(loaded', habits', interval)
    /\ filteredHabits' = IF queued.setHabits THEN FilterHabits(filter, habits')
                         ELSE filteredHabits
    /\ phase' = "mounted"
    /\ queued' = NoQueue
    /\ emitted' = Silent
    /\ UNCHANGED << toast, now, timeout, filter, fired >>

\* --------------------------------------------------------- user actions
Names == {"", " ", " run "}
ReminderInputs == {Null} \cup (0..(MinutesPerDay - 1))
HabitIds == DOMAIN NoneFired

\* handleAddHabit, lines 210-216, with the form fields as its inputs
handleAddHabit(name, time) ==
    /\ phase = "mounted"
    /\ IF trim(name) = ""
       THEN UNCHANGED << habits, stored, interval, filteredHabits >>
       ELSE /\ Len(habits) < MaxHabits
            /\ now - KeyToIso(StartDay) \in 0..(CreateUntil - 1)
            /\ habits' = << createHabit(name, time, habits) >> \o habits
            /\ stored' = PersistEffect(loaded, habits', stored)
            /\ interval' = IntervalEffect(loaded, habits', interval)
            /\ filteredHabits' = FilterHabits(filter, habits')
    /\ emitted' = Silent
    /\ UNCHANGED << loaded, toast, notificationPermission, now, timeout, filter, phase,
                    queued, fired >>

\* the updater of completeHabit, continuing a streak over skipped days
CompleteUpdate_AnyGap(habit, habitId, today) ==
    IF habit.id # habitId THEN habit
    ELSE IF \E i \in DOMAIN habit.history : isSameDay(habit.history[i], today) THEN habit
    ELSE LET continuing == habit.lastCompleted # Null
                           /\ differenceInCalendarDays(today, startOfDay(habit.lastCompleted)) >= 1
             streak == IF continuing THEN habit.streak + 1 ELSE 1
         IN  [habit EXCEPT !.history = uniqueHistory(habit.history \o << today >>),
                           !.streak = streak,
                           !.longestStreak = Max(streak, habit.longestStreak),
                           !.lastCompleted = today]

\* the updater of completeHabit without the same-day return of line 241
CompleteUpdate_NoSameDayReturn(habit, habitId, today) ==
    IF habit.id # habitId THEN habit
    ELSE LET continuing == habit.lastCompleted # Null
                           /\ differenceInCalendarDays(today, startOfDay(habit.lastCompleted)) = 1
             streak == IF continuing THEN habit.streak + 1 ELSE 1
         IN  [habit EXCEPT !.history = uniqueHistory(habit.history \o << today >>),
                           !.streak = streak,
                           !.longestStreak = Max(streak, habit.longestStreak),
                           !.lastCompleted = today]

\* the updater of completeHabit without the Math.max of line 248
CompleteUpdate_StaleLongest(habit, habitId, today) ==
    IF habit.id # habitId THEN habit
    ELSE IF \E i \in DOMAIN habit.history : isSameDay(habit.history[i], today) THEN habit
    ELSE LET continuing == habit.lastCompleted # Null
                           /\ differenceInCalendarDays(today, startOfDay(habit.lastCompleted)) = 1
             streak == IF continuing THEN habit.streak + 1 ELSE 1
         IN  [habit EXCEPT !.history = uniqueHistory(habit.history \o << today >>),
                           !.streak = streak,
                           !.lastCompleted = today]

\* the updater of completeHabit with the new streak as the record
CompleteUpdate_LongestIsStreak(habit, habitId, today) ==
    IF habit.id # habitId THEN habit
    ELSE IF \E i \in DOMAIN habit.history : isSameDay(habit.history[i], today) THEN habit
    ELSE LET continuing == habit.lastCompleted # Null
                           /\ differenceInCalendarDays(today, startOfDay(habit.lastCompleted)) = 1
             streak == IF continuing THEN habit.streak + 1 ELSE 1
         IN  [habit EXCEPT !.history = uniqueHistory(habit.history \o << today >>),
                           !.streak = streak,
                           !.longestStreak = streak,
                           !.lastCompleted = today]

\* the updater of completeHabit for one habit, lines 240-256
CompleteUpdate(habit, habitId, today) ==
    IF habit.id # habitId THEN habit
    ELSE IF \E i \in DOMAIN habit.history : isSameDay(habit.history[i], today) THEN habit
    ELSE LET lastDate == IF habit.lastCompleted # Null
                         THEN startOfDay(habit.lastCompleted) ELSE Null
             newHistory == uniqueHistory(habit.history \o << today >>)
             continuing == lastDate # Null /\ differenceInCalendarDays(today, lastDate) = 1
             streak == IF continuing THEN habit.streak + 1 ELSE 1
             longestStreak == Max(streak, habit.longestStreak)
         IN  [habit EXCEPT !.history = newHistory, !.streak = streak,
                           !.longestStreak = longestStreak, !.lastCompleted = today]

\* completeHabit, lines 235-259
completeHabit(habitId) ==
    /\ phase = "mounted"
    /\ habits' = [i \in DOMAIN habits |-> CompleteUpdate(habits[i], habitId, startOfDay(now))]
    /\ stored' = PersistEffect(loaded, habits', stored)
    /\ filteredHabits' = FilterHabits(filter, habits')
    /\ emitted' = Silent
    /\ UNCHANGED << loaded, toast, notificationPermission, now, interval, timeout, filter,
                    phase, queued, fired >>

\* the updater of resetHabit, forgetting the record streak
ResetUpdate_KeepsLongest(habit, habitId) ==
    IF habit.id = habitId
    THEN [habit EXCEPT !.history = << >>, !.streak = 0,
                       !.lastCompleted = Null, !.reminderLastNotified = Null]
    ELSE habit

\* the updater of resetHabit without the test of the id
ResetUpdate_EveryHabit(habit, habitId) ==
    [habit EXCEPT !.history = << >>, !.streak = 0, !.longestStreak = 0,
                  !.lastCompleted = Null, !.reminderLastNotified = Null]

\* the updater of resetHabit for one habit, lines 264-273
ResetUpdate(habit, habitId) ==
    IF habit.id = habitId
    THEN [habit EXCEPT !.history = << >>, !.streak = 0, !.longestStreak = 0,
                       !.lastCompleted = Null, !.reminderLastNotified = Null]
    ELSE habit

\* resetHabit, lines 261-276
resetHabit(habitId) ==
    /\ phase = "mounted"
    /\ habits' = [i \in DOMAIN habits |-> ResetUpdate(habits[i], habitId)]
    /\ stored' = PersistEffect(loaded, habits', stored)
    /\ filteredHabits' = FilterHabits(filter, habits')
    /\ emitted' = Silent
    /\ UNCHANGED << loaded, toast, notificationPermission, now, interval, timeout, filter,
                    phase, queued, fired >>

\* requestNotifications without the return of line 226
requestNotifications_NoGuard ==
    /\ phase = "mounted"
    /\ \E result \in {"granted", "denied", "default", "throws"} :
         /\ notificationPermission' = IF result = "throws" THEN notificationPermission
                                      ELSE result
         /\ interval' = IF notificationPermission' # notificationPermission
                        THEN IntervalEffect(loaded, habits, interval) ELSE interval
         /\ emitted' = [Silent EXCEPT !.op = "request"]
    /\ UNCHANGED << habits, loaded, toast, stored, now, timeout, filter, filteredHabits,
                    phase, queued, fired >>

\* requestNotifications, lines 225-233, with the answer of the platform to the
\* pending request taken in the same step: the permission state is written only
\* when the promise resolves, and a decided platform permission stays as it is.
\* The platform answers "default" when the
\* prompt is dismissed, and a rejected request is logged
requestNotifications ==
    /\ phase = "mounted"
    /\ IF notificationPermission # "default"
       THEN /\ emitted' = Silent
            /\ UNCHANGED << notificationPermission, interval >>
       ELSE \E result \in {"granted", "denied", "default", "throws"} :
              /\ notificationPermission' = IF result = "throws" THEN notificationPermission
                                           ELSE result
              /\ interval' = IF notificationPermission' # notificationPermission
                             THEN IntervalEffect(loaded, habits, interval) ELSE interval
              /\ emitted' = [Silent EXCEPT !.op = "request"]
    /\ UNCHANGED << habits, loaded, toast, stored, now, timeout, filter, filteredHabits,
                    phase, queued, fired >>

\* ------------------------------------------------------ the reminder poll
\* the test of line 164 without `!alreadyNotifiedToday`
Qualifies_IgnoresMarker(habit) ==
    /\ habit.reminderTime # Null
    /\ habit.reminderTime # Malformed
    /\ LET diff == now - (startOfDay(now) + habit.reminderTime * MinuteLen)
       IN  diff >= 0 /\ diff <= WindowLen
    /\ ~hasCompletedToday(habit)

\* the test of line 164 without `!alreadyCompletedToday`
Qualifies_IgnoresCompletion(habit) ==
    /\ habit.reminderTime # Null
    /\ habit.reminderTime # Malformed
    /\ LET diff == now - (startOfDay(now) + habit.reminderTime * MinuteLen)
       IN  diff >= 0 /\ diff <= WindowLen
    /\ habit.reminderLastNotified # DayKey(now)

\* lines 151-164: the habit qualifies in the tick running at `now`
Qualifies(habit) ==
    /\ habit.reminderTime # Null
    /\ habit.reminderTime # Malformed
    /\ LET target == startOfDay(now) + habit.reminderTime * MinuteLen
           diff == now - target
       IN  diff >= 0 /\ diff <= WindowLen
    /\ habit.reminderLastNotified # DayKey(now)
    /\ ~hasCompletedToday(habit)

\* the updater of the tick for one habit, lines 150-173
TickUpdate(habit) ==
    IF Qualifies(habit) THEN [habit EXCEPT !.reminderLastNotified = DayKey(now)] ELSE habit

\* The interval callback, lines 144-191.  `triggered` is filled by the updater
\* handed to setHabits.  React runs an updater inside the setHabits call when the
\* component has no pending work, and otherwise during the next render, after the
\* callback has returned: line 176 reads `triggered` filled or still empty.
Tick ==
    /\ now \in interval
    /\ habits' = [i \in DOMAIN habits |-> TickUpdate(habits[i])]
    /\ \E eager \in BOOLEAN :
         LET qualifying == Select(habits, [i \in DOMAIN habits |-> Qualifies(habits[i])])
             triggered == IF eager THEN qualifying ELSE << >>
             native == IF notificationPermission = "granted" THEN 1 ELSE 0
         IN  /\ toast' = IF triggered # << >>
                         THEN [id |-> 3 - Max(toast.id, 1), message |-> triggered[1].name]
                         ELSE toast
             /\ timeout' = IF triggered # << >> THEN ToastEffect(toast', timeout) ELSE timeout
             /\ emitted' = [op |-> "tick",
                            toasts |-> IF triggered # << >> THEN 1 ELSE 0,
                            natives |-> IF triggered # << >> THEN native ELSE 0,
                            tag |-> IF triggered # << >> THEN triggered[1].id ELSE Null,
                            marked |-> [i \in DOMAIN qualifying |-> qualifying[i].id]]
    /\ fired' = [id \in DOMAIN fired |->
                   fired[id] \/ \E i \in DOMAIN habits :
                                    habits[i].id = id /\ Qualifies(habits[i])]
    /\ stored' = PersistEffect(loaded, habits', stored)
    /\ filteredHabits' = FilterHabits(filter, habits')
    /\ interval' = (interval \ {now}) \cup {now + TickPeriod}
    /\ UNCHANGED << loaded, notificationPermission, now, filter, phase, queued >>

\* the toast effect's timeout, lines 196-200
DismissToast ==
    /\ \E due \in timeout :
         /\ toast' = NoToast
         /\ timeout' = IF toast' # toast THEN ToastEffect(toast', timeout \ {due})
                        ELSE timeout \ {due}
    /\ emitted' = Silent
    /\ UNCHANGED << habits, loaded, notificationPermission, stored, now, interval, filter,
                    filteredHabits, phase, queued, fired >>

\* the cleanups of the effects when the view goes away
Unmount ==
    /\ phase = "mounted"
    /\ phase' = "unmounted"
    /\ interval' = {}
    /\ timeout' = {}
    /\ emitted' = Silent
    /\ UNCHANGED << habits, loaded, toast, notificationPermission, stored, now, filter,
                    filteredHabits, queued, fired >>

\* 15 seconds pass.  A due interval callback runs before later instants, and a
\* pending 5-second toast timeout is over before the clock reaches the next instant.
Advance ==
    /\ phase \in {"mounted", "unmounted"}
    /\ \A due \in interval : now < due
    /\ timeout = {}
    /\ DayKey(now + 1) <= LastDay
    /\ now' = now + 1
    /\ emitted' = Silent
    /\ fired' = IF DayKey(now') = DayKey(now) THEN fired ELSE NoneFired
    /\ UNCHANGED << habits, loaded, toast, notificationPermission, stored, interval,
                    timeout, filter, filteredHabits, phase, queued >>

\* the filter pills, lines 314-331
setFilter(view) ==
    /\ phase = "mounted"
    /\ filter' = view
    /\ filteredHabits' = IF view # filter THEN FilterHabits(view, habits) ELSE filteredHabits
    /\ emitted' = Silent
    /\ UNCHANGED << habits, loaded, toast, notificationPermission, stored, now, interval,
                    timeout, phase, queued, fired >>

Views == {"all", "today", "reminders"}

Next ==
    \/ MountEffects
    \/ CommitMount
    \/ \E name \in Names, time \in ReminderInputs : handleAddHabit(name, time)
    \/ \E habitId \in HabitIds : completeHabit(habitId)
    \/ \E habitId \in HabitIds : resetHabit(habitId)
    \/ requestNotifications
    \/ Tick
    \/ DismissToast
    \/ Unmount
    \/ Advance

Spec == Init /\ [][Next]_vars

\* the same program with the filter pills in use
ViewNext == Next \/ \E view \in Views : setFilter(view)

ViewSpec == Init /\ [][ViewNext]_vars

\* ========================================================== properties

\* the position of the habit with this id in a list, 0 when there is none
IndexOf(list, id) ==
    IF \E i \in DOMAIN list : list[i].id = id
    THEN CHOOSE i \in DOMAIN list : list[i].id = id
    ELSE 0

HasDay(history, day) == \E i \in DOMAIN history : history[i] # Invalid /\ DayKey(history[i]) = day

\* the number of consecutive calendar days with a completion, counted backwards from `day`
RECURSIVE RunEnding(_, _)
RunEnding(history, day) ==
    IF HasDay(history, day) THEN 1 + RunEnding(history, day - 1) ELSE 0

\* a step in which Complete succeeds on the habit at position i: its history grows
Completes(i) ==
    /\ i \in DOMAIN habits'
    /\ habits'[i].id = habits[i].id
    /\ Len(habits'[i].history) > Len(habits[i].history)

\* C1: when Complete succeeds on day T, the new streak is the old streak + 1 if the
\* previous completion (lastCompleted) was on day T-1 and exactly 1 otherwise; hence
\* a habit completed today has as streak the number of consecutive completed days
\* ending today (3 after D, D+1, D+2; 1 after D, D+2).
C1_StreakRecurrence ==
    /\ [][\A i \in DOMAIN habits :
            Completes(i) =>
              /\ HasDay(habits'[i].history, DayKey(now))
              /\ habits'[i].lastCompleted = KeyToIso(DayKey(now))
              /\ habits'[i].streak =
                   IF habits[i].lastCompleted # Null
                      /\ DayKey(habits[i].lastCompleted) = DayKey(now) - 1
                   THEN habits[i].streak + 1
                   ELSE 1]_vars
    /\ [](\A i \in DOMAIN habits :
            HasDay(habits[i].history, DayKey(now)) =>
              habits[i].streak = RunEnding(habits[i].history, DayKey(now)))

\* three consecutive days completed, the last of them today: streak 3
C1_Witness ==
    \E i \in DOMAIN habits :
        /\ HasDay(habits[i].history, DayKey(now))
        /\ HasDay(habits[i].history, DayKey(now) - 1)
        /\ HasDay(habits[i].history, DayKey(now) - 2)
        /\ habits[i].streak = 3

\* C2: Complete on a habit that already has a completion for today leaves the whole
\* record unchanged, and no step of the same calendar day grows the history or
\* raises the streak of a habit already completed today.
C2_CompleteIdempotent ==
    /\ [](\A i \in DOMAIN habits :
            hasCompletedToday(habits[i]) =>
              CompleteUpdate(habits[i], habits[i].id, startOfDay(now)) = habits[i])
    /\ [][\A i \in DOMAIN habits :
            (/\ hasCompletedToday(habits[i])
             /\ DayKey(now') = DayKey(now)
             /\ IndexOf(habits', habits[i].id) # 0)
            => LET after == habits'[IndexOf(habits', habits[i].id)]
               IN  /\ Len(after.history) <= Len(habits[i].history)
                   /\ after.streak <= habits[i].streak]_vars

\* a habit completed today by Complete, with a streak that a second Complete would
\* reset if it were not a no-op
C2_Witness ==
    \E i \in DOMAIN habits :
        /\ hasCompletedToday(habits[i])
        /\ habits[i].lastCompleted = startOfDay(now)
        /\ habits[i].streak >= 2

\* the step is a tick that marks the habit with this id as fired
MarkedNow(id) ==
    /\ emitted'.op = "tick"
    /\ \E k \in DOMAIN emitted'.marked : emitted'.marked[k] = id

\* the habit is as Reset leaves it
IsReset(habit) ==
    /\ habit.history = << >>
    /\ habit.streak = 0
    /\ habit.longestStreak = 0
    /\ habit.lastCompleted = Null
    /\ habit.reminderLastNotified = Null

\* lines 153-160: the tick at `now` is inside the habit's window of today
InWindow(habit) ==
    /\ habit.reminderTime \in 0..(MinutesPerDay - 1)
    /\ now - (KeyToIso(DayKey(now)) + habit.reminderTime * MinuteLen) \in 0..WindowLen

\* C3 as stated: at most one tick per calendar day marks a given habit as fired,
\* whatever Create, Complete and Reset actions come in between.
C3_OncePerDay ==
    [][\A id \in HabitIds : MarkedNow(id) => ~fired[id]]_vars

\* C3, amended: a habit that fired today keeps today's marker through the day unless
\* it is Reset, a tick marks it again the same day only after such a Reset, and a
\* marker of an earlier day does not keep a tick inside today's window from marking it.
C3_OncePerDayUnlessReset ==
    [][\A i \in DOMAIN habits :
         LET habit == habits[i]
             at == IndexOf(habits', habit.id)
         IN  /\ (MarkedNow(habit.id) /\ fired[habit.id]) => IsReset(habit)
             /\ (habit.reminderLastNotified = DayKey(now) /\ DayKey(now') = DayKey(now))
                  => /\ ~MarkedNow(habit.id)
                     /\ at # 0
                     /\ habits'[at].reminderLastNotified = DayKey(now) \/ IsReset(habits'[at])
             /\ (/\ emitted'.op = "tick"
                 /\ InWindow(habit)
                 /\ ~hasCompletedToday(habit)
                 /\ habit.reminderLastNotified # DayKey(now))
                  => MarkedNow(habit.id) /\ habits'[at].reminderLastNotified = DayKey(now)]_vars

\* a tick inside the window has just left alone a persisted habit, last reminded on
\* an earlier day, that fired earlier today
C3_Witness ==
    \E i \in DOMAIN habits :
        /\ emitted.op = "tick"
        /\ emitted.marked = << >>
        /\ fired[habits[i].id]
        /\ habits[i].reminderLastNotified = DayKey(now)
        /\ InWindow(habits[i])
        /\ ~hasCompletedToday(habits[i])
        /\ habits[i].createdAt < KeyToIso(StartDay)

\* C4 as stated: in every state the streak is the number of consecutive completed
\* days counted backwards from today or, if today has no completion, from yesterday.
C4_StreakIsCurrentRun ==
    phase = "mounted" =>
      \A i \in DOMAIN habits :
        habits[i].streak =
          IF HasDay(habits[i].history, DayKey(now))
          THEN RunEnding(habits[i].history, DayKey(now))
          ELSE RunEnding(habits[i].history, DayKey(now) - 1)

\* C5 as stated: a tick in which k >= 1 habits qualify marks all k with today's key
\* and produces exactly one toast, and at most one native notification, naming the
\* first of them; a tick in which none qualifies produces no notification.
C5_OneNotificationPerTick ==
    emitted.op = "tick" =>
      IF emitted.marked = << >>
      THEN emitted.toasts = 0 /\ emitted.natives = 0
      ELSE /\ emitted.toasts = 1
           /\ emitted.natives <= 1
           /\ emitted.tag = emitted.marked[1]
           /\ toast # NoToast
           /\ toast.message = habits[IndexOf(habits, emitted.marked[1])].name
           /\ \A k \in DOMAIN emitted.marked :
                habits[IndexOf(habits, emitted.marked[k])].reminderLastNotified = DayKey(now)

RECURSIVE ValidEntries(_)
ValidEntries(history) ==
    IF history = << >> THEN << >>
    ELSE IF Head(history) = Invalid THEN ValidEntries(Tail(history))
    ELSE << Head(history) >> \o ValidEntries(Tail(history))

\* C6 as stated: when the persisted blob is a list of habits, the load hands every
\* persisted habit to the store, each with its valid history entries normalized and
\* only the invalid ones removed.
C6_LoadDropsOnlyInvalidEntries ==
    (phase = "mounting" /\ stored.kind = "list") =>
      /\ queued.setHabits
      /\ Len(queued.habits) = Len(stored.habits)
      /\ \A i \in DOMAIN stored.habits :
           queued.habits[i] =
             [stored.habits[i] EXCEPT !.history = uniqueHistory(ValidEntries(stored.habits[i].history))]

\* C7: longestStreak >= streak for every habit in every reachable state.
C7_LongestAtLeastStreak ==
    \A i \in DOMAIN habits : habits[i].longestStreak >= habits[i].streak

\* a habit whose streak Complete has raised to its record
C7_Witness ==
    \E i \in DOMAIN habits :
        /\ habits[i].lastCompleted = startOfDay(now)
        /\ habits[i].streak >= 2
        /\ habits[i].longestStreak = habits[i].streak

\* C8: Reset leaves the habit with empty history, streak 0, longestStreak 0, no
\* lastCompleted and no reminderLastNotified, at the same position of a list of the
\* same length, with its id, name, reminderTime and createdAt unchanged.
C8_ResetClears ==
    [][\A id \in HabitIds :
         resetHabit(id) =>
           /\ Len(habits') = Len(habits)
           /\ \A i \in DOMAIN habits :
                habits[i].id = id =>
                  /\ IsReset(habits'[i])
                  /\ habits'[i].id = habits[i].id
                  /\ habits'[i].name = habits[i].name
                  /\ habits'[i].reminderTime = habits[i].reminderTime
                  /\ habits'[i].createdAt = habits[i].createdAt]_vars

\* a persisted habit that had completions and fired today, after its Reset
C8_Witness ==
    \E i \in DOMAIN habits :
        /\ fired[habits[i].id]
        /\ habits[i].createdAt < KeyToIso(StartDay)
        /\ IsReset(habits[i])

\* C9: once the load has finished the persisted slot holds exactly the in-memory
\* list after every store mutation, and no step that ends with the load unfinished
\* writes the slot.
C9_PersistenceMirrorsStore ==
    /\ [](loaded => stored = Stringify(habits))
    /\ [][~loaded' => stored' = stored]_vars

\* a loaded store of two habits, one of them just marked by a tick, mirrored
C9_Witness ==
    /\ loaded
    /\ Len(habits) = 2
    /\ emitted.op = "tick"
    /\ emitted.marked # << >>
    /\ stored = Stringify(habits)

\* no two entries of a history are on the same calendar day
OnePerDay(history) ==
    \A i, j \in DOMAIN history : i # j => DayKey(history[i]) # DayKey(history[j])

\* C10: after load each habit's history has at most one entry per calendar day.
C10_OneEntryPerDay ==
    /\ \A i \in DOMAIN habits : OnePerDay(habits[i].history)
    /\ \A i \in DOMAIN queued.habits : OnePerDay(queued.habits[i].history)

\* the persisted habit with two timestamps of yesterday, loaded and completed today
C10_Witness ==
    \E i \in DOMAIN habits :
        /\ habits[i].name = "read"
        /\ habits[i].history = << KeyToIso(Yesterday), KeyToIso(DayKey(now)) >>

\* the four conditions of the claim, for the tick running at `now`
ShouldFire(habit) ==
    /\ habit.reminderTime \in 0..(MinutesPerDay - 1)
    /\ now - (KeyToIso(DayKey(now)) + habit.reminderTime * MinuteLen) \in 0..WindowLen
    /\ habit.reminderLastNotified # DayKey(now)
    /\ ~HasDay(habit.history, DayKey(now))

\* C11: a tick marks a habit as fired if and only if its reminder time is well
\* formed, the tick is at most 60 s after today's reminder instant, its marker is not
\* today's key and it has no completion for today; every other habit (completed
\* today, no or a malformed reminder time) is left unchanged by the tick.
C11_MarksIffQualifies ==
    [][emitted'.op = "tick" =>
         /\ Len(habits') = Len(habits)
         /\ \A i \in DOMAIN habits :
              /\ MarkedNow(habits[i].id) <=> ShouldFire(habits[i])
              /\ habits'[i] = IF ShouldFire(habits[i])
                              THEN [habits[i] EXCEPT !.reminderLastNotified = DayKey(now)]
                              ELSE habits[i]]_vars

\* a tick has just marked one habit and left alone another that is inside its window,
\* not marked today, but completed today
C11_Witness ==
    /\ emitted.op = "tick"
    /\ emitted.marked # << >>
    /\ \E i \in DOMAIN habits :
         /\ InWindow(habits[i])
         /\ hasCompletedToday(habits[i])
         /\ habits[i].reminderLastNotified # DayKey(now)

\* C12 as stated: every tick that marks at least one habit sets a toast in that same
\* tick, whatever the permission state, and issues a native notification if and only
\* if the permission state is "granted".
C12_ToastOnEveryMarkingTick ==
    (emitted.op = "tick" /\ emitted.marked # << >>) =>
      /\ emitted.toasts = 1
      /\ toast # NoToast
      /\ emitted.natives = 1 <=> notificationPermission = "granted"

\* C13: Notification.requestPermission() is called only in state "default"; a state
\* "granted", "denied" or "unsupported" never changes again and requestNotifications
\* then changes nothing; a request leaves "default" only for "granted" or "denied".
C13_PermissionStateMachine ==
    [][/\ notificationPermission # "default"
           => notificationPermission' = notificationPermission
       /\ emitted'.op = "request"
           => /\ notificationPermission = "default"
              /\ notificationPermission' \in {"default", "granted", "denied"}
       /\ (requestNotifications /\ notificationPermission # "default")
           => /\ emitted'.op # "request"
              /\ UNCHANGED << habits, loaded, toast, notificationPermission, stored, now,
                              interval, timeout, filter, filteredHabits, phase, queued,
                              fired >>]_vars

\* a request has just been answered with a denial, the store being loaded and not empty
C13_Witness ==
    /\ emitted.op = "request"
    /\ notificationPermission = "denied"
    /\ habits # << >>

C15_CreatePrepends ==
    /\ [](\A i, j \in DOMAIN habits : i # j => habits[i].id # habits[j].id)
    /\ [][\A name \in Names, time \in ReminderInputs :
            handleAddHabit(name, time) =>
              IF name \in {"", " "}
              THEN habits' = habits /\ stored' = stored
              ELSE /\ Len(habits') = Len(habits) + 1
                   /\ \A i \in DOMAIN habits : habits'[i + 1] = habits[i]
                   /\ habits'[1].name = "run"
                   /\ habits'[1].reminderTime = time
                   /\ habits'[1].createdAt = now
                   /\ IsReset(habits'[1])
                   /\ \A i \in DOMAIN habits : habits[i].id # habits'[1].id]_vars

\* a habit created in this session stands before a persisted habit
C15_Witness ==
    /\ Len(habits) = 2
    /\ habits[1].createdAt >= KeyToIso(StartDay)
    /\ habits[1].name = "run"
    /\ IsReset(habits[1])
    /\ habits[2].createdAt < KeyToIso(StartDay)
    /\ habits[2].history # << >>

\* C16: the longestStreak of a habit never decreases in a step that is not a Reset
\* of that habit: not by Complete, not by a reminder tick, not by a day change, and
\* the habit stays in the store.
C16_LongestNeverDecreases ==
    [][\A i \in DOMAIN habits :
         ~resetHabit(habits[i].id) =>
           /\ IndexOf(habits', habits[i].id) # 0
           /\ habits'[IndexOf(habits', habits[i].id)].longestStreak >= habits[i].longestStreak]_vars

\* after the day changed, a habit with a record of 2 was completed after a gap: the
\* streak is back to 1 and the record is kept
C16_Witness ==
    \E i \in DOMAIN habits :
        /\ DayKey(now) = StartDay
        /\ habits[i].lastCompleted = KeyToIso(StartDay)
        /\ habits[i].streak = 1
        /\ habits[i].longestStreak = 2

\* what a view is to show at `now`
ViewOf(view, list) ==
    IF view = "all" THEN list
    ELSE IF view = "today"
    THEN Select(list, [i \in DOMAIN list |-> ~HasDay(list[i].history, DayKey(now))])
    ELSE Select(list, [i \in DOMAIN list |-> list[i].reminderTime # Null])

\* C17 as stated: whenever the view is rendered, "all" returns the whole list, "today"
\* exactly the habits with no completion for today and "reminders" exactly the habits
\* with a reminder time, in store order; changing the filter changes neither the list
\* nor the slot.
C17_FilterIsPureProjection ==
    [][/\ filter' # filter => (habits' = habits /\ stored' = stored)
       /\ (/\ phase' = "mounted"
           /\ now' = now
           /\ \/ filter' # filter
              \/ habits' # habits
              \/ toast' # toast
              \/ notificationPermission' # notificationPermission)
            => filteredHabits' = ViewOf(filter', habits')]_vars

\* today's reminder instant of a habit with a well-formed reminder time
Target(habit) == KeyToIso(DayKey(now)) + habit.reminderTime * MinuteLen

\* C18 as stated: a habit that was in the loaded store of the mounted view from the
\* start of today's window to its end, with no completion today and no Reset, has
\* been marked by a tick by the end of the window (the last instant of the window,
\* once no tick is due at it any more), whatever user actions came in between.
C18_FiresInsideWindow ==
    \A i \in DOMAIN habits :
        (/\ phase = "mounted"
         /\ loaded
         /\ habits[i].reminderTime \in 0..(MinutesPerDay - 1)
         /\ Target(habits[i]) >= KeyToIso(StartDay) - LateStart
         /\ habits[i].createdAt < Target(habits[i])
         /\ now = Target(habits[i]) + WindowLen
         /\ \A due \in interval : now < due
         /\ habits[i].history # << >>
         /\ ~hasCompletedToday(habits[i]))
        => habits[i].reminderLastNotified = DayKey(now)

\* C19: at most one poll timer is live; a step that changes the habit count, the
\* loaded flag or the permission state leaves exactly the timer it starts (due 30 s
\* later), or none when the store is not loaded or empty; no timer is live while the
\* store is not loaded or empty, or outside the mounted view; after the unmount no
\* tick runs and nothing writes the store or the slot.
C19_OnePollTimer ==
    /\ [](Cardinality(interval) <= 1)
    /\ []((~loaded \/ habits = << >>) => interval = {})
    /\ [](phase # "mounted" => interval = {})
    /\ [][/\ (/\ phase' = "mounted"
               /\ \/ Len(habits') # Len(habits)
                  \/ loaded' # loaded
                  \/ notificationPermission' # notificationPermission)
                => interval' = IF loaded' /\ habits' # << >> THEN {now + TickPeriod} ELSE {}
          /\ phase = "unmounted"
                => /\ emitted'.op # "tick"
                   /\ habits' = habits
                   /\ stored' = stored]_vars

\* the view was unmounted with a reminder pending: at an instant at which the timer
\* would have been due, a habit inside its window is still waiting to be marked
C19_Witness ==
    /\ phase = "unmounted"
    /\ loaded
    /\ interval = {}
    /\ now = KeyToIso(StartDay) + TickPeriod + 1
    /\ \E i \in DOMAIN habits : ShouldFire(habits[i])

\* the step keeps the length and the order of the list and every habit whose id is
\* not habitId
OthersKept(habitId) ==
    /\ Len(habits') = Len(habits)
    /\ \A i \in DOMAIN habits :
         /\ habits'[i].id = habits[i].id
         /\ habits[i].id # habitId => habits'[i] = habits[i]
    /\ (\A i \in DOMAIN habits : habits[i].id # habitId)
         => (habits' = habits /\ stored' = stored)

\* C20: Complete(habitId) and Reset(habitId) leave every habit with another id
\* unchanged and keep the length and order of the list, and change nothing when no
\* habit has the id; a tick changes nothing but the reminderLastNotified of habits
\* that qualify, and keeps the length and order of the list.
C20_StoreActionsFrame ==
    [][/\ \A habitId \in HabitIds :
            (completeHabit(habitId) \/ resetHabit(habitId)) => OthersKept(habitId)
       /\ emitted'.op = "tick" =>
            /\ Len(habits') = Len(habits)
            /\ \A i \in DOMAIN habits :
                 /\ [habits'[i] EXCEPT !.reminderLastNotified = habits[i].reminderLastNotified]
                      = habits[i]
                 /\ habits'[i] # habits[i] => ShouldFire(habits[i])]_vars

\* in a store of two persisted habits the first has been reset and the second is as
\* it was loaded
C20_Witness ==
    /\ Len(habits) = 2
    /\ habits[1].id = PersistedHabits[4].id
    /\ IsReset(habits[1])
    /\ habits[2] = PersistedHabits[5]

====
